---- MODULE Spec2Model ----
(***************************************************************************)
(* A model of the lottery ticket code of desin_pattern/ticket/ticket.go.   *)
(*                                                                         *)
(* The file holds two generations of the design:                           *)
(*   - the data warehouse (lines 1-226): LotteryFactory.CreateLotteryTicket *)
(*     builds a ticket, MongoDBStorageStrategy.SaveTicket inserts it into  *)
(*     the authoritative store, RedisCacheStrategy.CacheTicket caches it,  *)
(*     and main sequences the three calls;                                 *)
(*   - the lottery service (lines 228-471): LotteryService.PlaceBet and    *)
(*     LotteryService.RecordDrawResult over MongoLotteryRepository.        *)
(* Each generation has its own specification (SpecWarehouse, SpecService). *)
(* The status transitions, claimTicket and settleIssue of spec.md have no  *)
(* code in the repository; SpecLedger models them from spec.md over the    *)
(* tickets and draw results the lottery service stores.                    *)
(* The stores are external: MongoDB's InsertOne either inserts the         *)
(* document and returns nil or inserts nothing and returns an error (a     *)
(* transport failure, or a duplicate _id); Redis SET either stores the     *)
(* value or fails, and a stored key disappears when its TTL runs out.      *)
(***************************************************************************)
EXTENDS Integers, Sequences, FiniteSets, TLC

\* ------------------------------------------------------------- bounds
\* Clock readings are 0..MaxClock.
MaxClock == 1
\* Clock readings per second: time.Now().Unix() is the reading divided by it.
TicksPerSecond == 1
\* Runs of the warehouse's main sequence (create, save, cache).
NumMain == 2
\* uuid.New() draws of the lottery service.
MaxUUID == 2
\* Runs of settleIssue.
NumRuns == 2
\* The callers of LotteryFactory, and the element writes each makes afterwards.
NumCallers == 2
MaxWrites == 1
\* The goroutines that call RecordPayment, and those that call GetPaymentSummary.
NumWriters == 2
NumReaders == 1
\* The strategies added to a PaymentContext, and the Pay calls made on it.
MaxStrategies == 3
MaxPays == 2
\* The AddFollow calls made on an OrthogonalList.
MaxFollows == 3

\* ------------------------------------------------------------- values
Nil == "nil"

\* TicketStatus (iota)
Pending == 0
Winning == 1
Lost == 2
Claimed == 3

\* LotteryType: an int enumeration in the warehouse, a string in the service
DoubleBallIota == 0
DoubleBall == "DOUBLE_BALL"
ArrangeV3 == "ARRANGE_V3"

\* PrizeLevel
FirstPrize == "FIRST"

\* The numbers of the two example bets: main's own call, and a second one.
NumberChoices == { << <<1, 2, 3, 4, 5, 6>>, <<7>> >>, << <<4, 2, 9>> >> }

\* The user of main's example call and a second one.
Users == {"user123", "user456"}

VARIABLES
    now,              \* the reading time.Now() returns
    \* --- data warehouse
    pc,               \* pc[p]: where run p of main stands
    ticket,           \* ticket[p]: the *LotteryTicket run p holds
    saveErr,          \* saveErr[p]: what SaveTicket returned to run p (main drops it)
    cacheErr,         \* cacheErr[p]: what CacheTicket returned to run p (main drops it)
    ticketColl,       \* MongoDBStorageStrategy.ticketColl: the documents inserted
    redis,            \* the Redis keyspace: key -> value
    \* --- lottery service
    ticketCollection, \* MongoLotteryRepository.ticketCollection
    resultCollection, \* MongoLotteryRepository.resultCollection
    nextUUID,         \* the number of uuid.New() draws so far
    placeBetLog,      \* every PlaceBet call: the ticket built, what was returned
    recordLog,        \* every RecordDrawResult call: the result built, what was returned
    \* --- ticket ledger and settlement engine (spec.md 4.2, 4.5)
    payout,           \* payout[id]: the payout a transition computed for ticket id
    marker,           \* marker[pair]: the run holding the "settlement in progress" marker
    spc,              \* spc[r]: where settlement run r stands
    starget,          \* starget[r]: the (product, issue) pair run r settles
    sdraw,            \* sdraw[r]: the DrawResult run r settles against
    spending,         \* spending[r]: the tickets run r pulled and has not yet handled
    sresult,          \* sresult[r]: what run r returned
    swrites,          \* swrites[r]: the number of writes run r has made
    soverlap,         \* soverlap[r]: the runs in progress on r's pair when r started
    sskipped,         \* the runs that met a pulled ticket that was no longer Pending
    spulled,          \* spulled[r]: the tickets run r pulled when it started
    lastClaim,        \* the last claimTicket call: the ticket before and after, the result
    \* --- a caller of LotteryFactory that keeps the slice it passed
    heap,             \* heap[a]: the contents of the [][]int whose backing arrays are at a
    cpc,              \* cpc[c]: where caller c stands
    cnumbers,         \* cnumbers[c]: caller c's variable numbers (the address it refers to)
    cticket,          \* cticket[c]: the *LotteryTicket the factory returned to caller c
    corig,            \* corig[c]: the number groups caller c passed, as they were then
    cwrites,          \* cwrites[c]: the element writes caller c has made since
    cstore,           \* the documents the callers have saved
    \* --- PaymentTracker (strategy.go) and the goroutines that call it
    records,          \* pt.records: method -> the address of its *PaymentRecord
    precords,         \* precords[a]: the PaymentRecord at address a
    mu,               \* pt.mu: the goroutine holding the write lock, those holding read locks
    tpc,              \* tpc[g]: where goroutine g stands in its call
    targ,             \* targ[g]: the arguments of g's RecordPayment call
    treg,             \* treg[g]: the value g has loaded for a += in progress
    titer,            \* titer[g]: the methods g's range over pt.records has still to visit
    tcur,             \* tcur[g]: the part of *record g has copied so far
    tsum,             \* tsum[g]: summaryRecords of g's GetPaymentSummary call
    \* --- PaymentContext (strategy.go)
    strategies,       \* pc.strategies, each strategy with its own fields
    ppc,              \* where the call of Pay stands
    pcalls,           \* the number of Pay calls made so far
    pamount,          \* Pay's argument amount
    premaining,       \* Pay's variable remainingAmount
    pindex,           \* the index the range over pc.strategies has reached
    plog,             \* the strategy.Pay calls of this Pay: index, name, amount in, amount out
    pwritten,         \* the methods this Pay has called RecordPayment for, in order
    \* --- OrthogonalList (factory.go)
    nodes,            \* nodes[n]: the Node at address n; NextRow, NextColumn 0 for nil
    Rows,             \* ol.Rows: user -> the first node of its following list, 0 for nil
    Cols,             \* ol.Cols: user -> the first node of its follower list, 0 for nil
    follows           \* the AddFollow calls made, in order

warehouseVars == <<pc, ticket, saveErr, cacheErr, ticketColl, redis>>
serviceVars == <<ticketCollection, resultCollection, nextUUID, placeBetLog, recordLog>>
ledgerVars == <<payout, marker, spc, starget, sdraw, spending, sresult, swrites, soverlap,
                sskipped, spulled, lastClaim>>
callerVars == <<heap, cpc, cnumbers, cticket, corig, cwrites, cstore>>
trackerVars == <<records, precords, mu, tpc, targ, treg, titer, tcur, tsum>>
paymentVars == <<strategies, ppc, pcalls, pamount, premaining, pindex, plog, pwritten>>
followVars == <<nodes, Rows, Cols, follows>>
patternVars == <<callerVars, trackerVars, paymentVars, followVars>>
vars == <<now, warehouseVars, serviceVars, ledgerVars, patternVars>>

Procs == 1..NumMain
Callers == 1..NumCallers
Writers == 1..NumWriters
Readers == (NumWriters + 1)..(NumWriters + NumReaders)
Runs == 1..NumRuns

\* ------------------------------------------------------------- the clock
\* time.Now().UnixNano()
UnixNano(t) == t
\* time.Now().Unix()
Unix(t) == t \div TicksPerSecond

Tick ==
    /\ now < MaxClock
    /\ now' = now + 1
    /\ UNCHANGED <<patternVars, warehouseVars, serviceVars, ledgerVars>>

\* ------------------------------------------------------------- MongoDB
\* Collection.InsertOne: _id is unique in a collection. fail is a failure of
\* the call itself (the server cannot be reached, the context ends).
InsertOne(coll, doc, fail) ==
    IF fail \/ (\E d \in coll : d.ID = doc.ID)
    THEN [coll |-> coll, err |-> "error"]
    ELSE [coll |-> coll \cup {doc}, err |-> Nil]

\* ------------------------------------------------------------- data warehouse
\* fmt.Sprintf("%d_%s", time.Now().UnixNano(), userID)
TicketID(t, userID) == ToString(UnixNano(t)) \o "_" \o userID

\* LotteryFactory.CreateLotteryTicket; idTime and betTime are its two
\* time.Now() readings. The fields it does not set keep Go's zero value.
CreateLotteryTicket(lotteryType, userID, numbers, idTime, betTime) ==
    [ID |-> TicketID(idTime, userID),
     UserID |-> userID,
     LotteryType |-> lotteryType,
     Numbers |-> numbers,
     BetAmount |-> 0,
     BetTime |-> betTime,
     Multiple |-> 0,
     PlayType |-> "",
     Status |-> Pending]

\* json.Marshal of a LotteryTicket: the fields under their json names, in
\* the order of the struct.
Marshal(t) ==
    << <<"id", t.ID>>, <<"user_id", t.UserID>>, <<"lottery_type", t.LotteryType>>,
       <<"numbers", t.Numbers>>, <<"bet_amount", t.BetAmount>>,
       <<"bet_time", t.BetTime>>, <<"multiple", t.Multiple>>,
       <<"play_type", t.PlayType>>, <<"status", t.Status>> >>

\* fmt.Sprintf("ticket:%s", ticket.ID)
CacheKey(t) == "ticket:" \o t.ID

\* redis.Client.Set
RedisSet(store, key, data) ==
    [k \in DOMAIN store \cup {key} |-> IF k = key THEN data ELSE store[k]]

\* --- a caller that keeps its slice. A Go slice is a header (pointer, len,
\* cap): "Numbers: numbers" (line 200, and line 402 in PlaceBet) copies the
\* header, so the ticket and the caller's variable refer to one backing array.
\* The value a caller writes into its slice afterwards.
NewNumber == 9

\* The [][]int a slice header at address a refers to.
Deref(h, a) == h[a]

\* numbers[i][j] = v through a slice header at address a.
SliceWrite(h, a, i, j, v) ==
    [h EXCEPT ![a] = [@ EXCEPT ![i] = [@ EXCEPT ![j] = v]]]

\* numbers := [][]int{...}; ticket := factory.CreateLotteryTicket(t, userID, numbers)
CallerCreate(c, userID, numbers) ==
    /\ cpc[c] = "start"
    /\ LET a == Len(heap) + 1
       IN /\ heap' = Append(heap, numbers)
          /\ cnumbers' = [cnumbers EXCEPT ![c] = a]
          /\ cticket' = [cticket EXCEPT ![c] =
                            CreateLotteryTicket(DoubleBallIota, userID, a, now, now)]
    /\ corig' = [corig EXCEPT ![c] = numbers]
    /\ cpc' = [cpc EXCEPT ![c] = "held"]
    /\ UNCHANGED <<now, cwrites, cstore, warehouseVars, serviceVars, ledgerVars, trackerVars, paymentVars, followVars>>

\* numbers[i][j] = NewNumber, by the caller, after the ticket was created
CallerWrite(c, i, j) ==
    /\ cpc[c] \in {"held", "saved"}
    /\ cwrites[c] < MaxWrites
    /\ i \in DOMAIN Deref(heap, cnumbers[c])
    /\ j \in DOMAIN Deref(heap, cnumbers[c])[i]
    /\ heap' = SliceWrite(heap, cnumbers[c], i, j, NewNumber)
    /\ cwrites' = [cwrites EXCEPT ![c] = @ + 1]
    /\ UNCHANGED <<now, cpc, cnumbers, cticket, corig, cstore,
                   warehouseVars, serviceVars, ledgerVars, trackerVars, paymentVars, followVars>>

\* strategy.SaveTicket(ticket): InsertOne serialises what the ticket's
\* Numbers refers to at the time of the call.
CallerSave(c) ==
    /\ cpc[c] = "held"
    /\ \E fail \in BOOLEAN :
        LET doc == [cticket[c] EXCEPT !.Numbers = Deref(heap, @)]
            r == InsertOne(cstore, doc, fail)
        IN cstore' = r.coll
    /\ cpc' = [cpc EXCEPT ![c] = "saved"]
    /\ UNCHANGED <<now, heap, cnumbers, cticket, corig, cwrites,
                   warehouseVars, serviceVars, ledgerVars, trackerVars, paymentVars, followVars>>

\* main, lines 217-221: lotteryFactory.CreateLotteryTicket(...). The runs of
\* main are numbered in the order they reach this call.
MainCreate(p) ==
    /\ pc[p] = "create"
    /\ \A q \in Procs : q < p => pc[q] # "create"
    /\ \E userID \in Users, numbers \in NumberChoices, betTime \in {now, now + 1} :
        /\ betTime <= MaxClock
        /\ LET t == CreateLotteryTicket(DoubleBallIota, userID, numbers, now, betTime)
           IN ticket' = [ticket EXCEPT ![p] = t]
        /\ now' = betTime
    /\ pc' = [pc EXCEPT ![p] = "save"]
    /\ UNCHANGED <<patternVars, saveErr, cacheErr, ticketColl, redis, serviceVars, ledgerVars>>

\* main, line 224: mongoStrategy.SaveTicket(ticket); the error is dropped
MainSave(p) ==
    /\ pc[p] = "save"
    /\ \E fail \in BOOLEAN :
        LET r == InsertOne(ticketColl, ticket[p], fail)
        IN /\ ticketColl' = r.coll
           /\ saveErr' = [saveErr EXCEPT ![p] = r.err]
    /\ pc' = [pc EXCEPT ![p] = "cache"]
    /\ UNCHANGED <<patternVars, now, ticket, cacheErr, redis, serviceVars, ledgerVars>>

\* A main that gives up when CacheTicket returns an error.
AfterCacheTicket_Failing(err) == IF err = Nil THEN "done" ELSE "failed"

\* Where main stands after line 225: the value CacheTicket returned is not
\* assigned, so main returns normally whatever it was.
AfterCacheTicket(err) == "done"

\* main, line 225: redisCache.CacheTicket(ticket); the error is dropped
MainCache(p) ==
    /\ pc[p] = "cache"
    /\ \E fail \in BOOLEAN :
        LET err == IF fail THEN "error" ELSE Nil
        IN /\ redis' = IF fail THEN redis
                       ELSE RedisSet(redis, CacheKey(ticket[p]), Marshal(ticket[p]))
           /\ cacheErr' = [cacheErr EXCEPT ![p] = err]
           /\ pc' = [pc EXCEPT ![p] = AfterCacheTicket(err)]
    /\ UNCHANGED <<patternVars, now, ticket, saveErr, ticketColl, serviceVars, ledgerVars>>

\* The 24 hour TTL of a cached ticket runs out.
RedisExpire ==
    /\ \E key \in DOMAIN redis :
        redis' = [k \in DOMAIN redis \ {key} |-> redis[k]]
    /\ UNCHANGED <<patternVars, now, pc, ticket, saveErr, cacheErr, ticketColl, serviceVars,
                   ledgerVars>>


\* ------------------------------------------------------------- lottery service
\* The user identities (uuid.UUID) the callers pass.
UserIDs == {"u-1"}
\* The stakes the callers pass (float64 in the code; whole amounts here).
BetAmounts == {0, 100}
\* The numbers of main's example bet.
BetNumbers == { << <<1, 2, 3, 4, 5, 6>>, <<7>> >> }
\* The winning numbers and the prize lists the callers pass.
WinningChoices == { <<1, 2, 3, 4, 5, 6>>, <<4, 2, 9>> }
PrizeChoices == { << [Level |-> FirstPrize, WinnerCount |-> 1, PrizeAmount |-> 5000000] >> }

\* uuid.New(): a random version 4 UUID; the n-th draw is a value no other draw has.
NewUUID(n) == "uuid-" \o ToString(n)

\* fmt.Sprintf("%d", time.Now().Unix())
IssueNumberAt(t) == ToString(Unix(t))

\* PlaceBet's literal with the status of a settled ticket.
NewTicket_StatusWinning(id, userID, lotteryType, numbers, betAmount, t) ==
    [ID |-> id, UserID |-> userID, LotteryType |-> lotteryType, BetType |-> "",
     Numbers |-> numbers, BetAmount |-> betAmount, Multiple |-> 0,
     IssueNumber |-> IssueNumberAt(t), BetTime |-> t, Status |-> Winning]

\* The LotteryTicket literal of PlaceBet; BetType and Multiple are not set
\* and keep Go's zero value.
NewTicket(id, userID, lotteryType, numbers, betAmount, t) ==
    [ID |-> id,
     UserID |-> userID,
     LotteryType |-> lotteryType,
     BetType |-> "",
     Numbers |-> numbers,
     BetAmount |-> betAmount,
     Multiple |-> 0,
     IssueNumber |-> IssueNumberAt(t),
     BetTime |-> t,
     Status |-> Pending]

\* The DrawResult literal of RecordDrawResult; Jackpot is not set.
NewDrawResult(id, lotteryType, winningNumbers, prizes, t) ==
    [ID |-> id,
     LotteryType |-> lotteryType,
     IssueNumber |-> IssueNumberAt(t),
     DrawTime |-> t,
     WinningNumbers |-> winningNumbers,
     Jackpot |-> 0,
     Prizes |-> prizes]

\* PlaceBet with its error check dropped: the ticket is returned whatever
\* the repository said.
ServiceReturn_IgnoringError(value, err) == [value |-> {value}, err |-> err]

\* What PlaceBet and RecordDrawResult return for the value they built and
\* the error of the repository: (nil, err) or (value, nil). The pointer
\* returned is the set of what it points to: empty for nil.
ServiceReturn(value, err) ==
    IF err # Nil THEN [value |-> {}, err |-> err]
    ELSE [value |-> {value}, err |-> Nil]

\* LotteryService.PlaceBet over MongoLotteryRepository.SaveTicket
PlaceBet(userID, lotteryType, numbers, betAmount) ==
    /\ nextUUID < MaxUUID
    /\ \E fail \in BOOLEAN :
        LET t == NewTicket(NewUUID(nextUUID), userID, lotteryType, numbers, betAmount, now)
            r == InsertOne(ticketCollection, t, fail)
        IN /\ ticketCollection' = r.coll
           /\ placeBetLog' = placeBetLog \cup {[built |-> t, ret |-> ServiceReturn(t, r.err)]}
    /\ nextUUID' = nextUUID + 1
    /\ UNCHANGED <<patternVars, now, resultCollection, recordLog, warehouseVars, ledgerVars>>

\* LotteryService.RecordDrawResult over MongoLotteryRepository.SaveDrawResult
RecordDrawResult(lotteryType, winningNumbers, prizes) ==
    /\ nextUUID < MaxUUID
    /\ \E fail \in BOOLEAN :
        LET d == NewDrawResult(NewUUID(nextUUID), lotteryType, winningNumbers, prizes, now)
            r == InsertOne(resultCollection, d, fail)
        IN /\ resultCollection' = r.coll
           /\ recordLog' = recordLog \cup {[built |-> d, ret |-> ServiceReturn(d, r.err)]}
    /\ nextUUID' = nextUUID + 1
    /\ UNCHANGED <<patternVars, now, ticketCollection, placeBetLog, warehouseVars, ledgerVars>>


\* ------------------------------------------------------------- ticket ledger
\* The ledger's transitions and the settlement engine are not in the
\* repository's code, which only declares TicketStatus and never assigns a
\* status after creation. They are modelled from spec.md: 3 (Status), 4.2
\* (transition), 4.5 (settlement) and 6 (settleIssue, claimTicket). The
\* tickets and the draw results they act on are those PlaceBet and
\* RecordDrawResult stored. Won is the code's Winning.

Statuses == {Pending, Winning, Lost, Claimed}
\* The payouts a caller of transition passes.
PayoutChoices == {500}

\* The state machine with no guard at all: every change of status is legal.
LegalTransitions_Unguarded == Statuses \X Statuses

\* Pending -> Won | Lost on settlement, Won -> Claimed on claim.
LegalTransitions == {<<Pending, Winning>>, <<Pending, Lost>>, <<Winning, Claimed>>}

PayoutOf(pay, id) == IF id \in DOMAIN pay THEN pay[id] ELSE 0
SetPayout(pay, id, amount) ==
    [k \in DOMAIN pay \cup {id} |-> IF k = id THEN amount ELSE pay[k]]

HasTicket(coll, id) == \E t \in coll : t.ID = id
TicketByID(coll, id) == CHOOSE t \in coll : t.ID = id

\* transition that makes the change whatever the current status is.
TransitionResult_Unchecked(t, curPayout, newStatus, payoutAmount) ==
    [ticket |-> [t EXCEPT !.Status = newStatus], payout |-> payoutAmount, err |-> Nil]

\* transition(ticketID, newStatus, payoutAmount) on the ticket t found: the
\* updated ticket and payout, or InvalidTransition and the ticket unchanged.
TransitionResult(t, curPayout, newStatus, payoutAmount) ==
    IF <<t.Status, newStatus>> \in LegalTransitions
    THEN [ticket |-> [t EXCEPT !.Status = newStatus], payout |-> payoutAmount, err |-> Nil]
    ELSE [ticket |-> t, payout |-> curPayout, err |-> "InvalidTransition"]

\* The store after a transition result r for the ticket t is written back.
WriteBack(coll, t, r) == (coll \ {t}) \cup {r.ticket}

\* 4.2 transition, called on a stored ticket
Transition(id, newStatus, payoutAmount) ==
    /\ HasTicket(ticketCollection, id)
    /\ LET t == TicketByID(ticketCollection, id)
           r == TransitionResult(t, PayoutOf(payout, id), newStatus, payoutAmount)
       IN /\ ticketCollection' = WriteBack(ticketCollection, t, r)
          /\ payout' = IF r.err = Nil THEN SetPayout(payout, id, r.payout) ELSE payout
    /\ UNCHANGED <<patternVars, now, resultCollection, nextUUID, placeBetLog, recordLog, warehouseVars,
                   marker, spc, starget, sdraw, spending, sresult, swrites, soverlap, sskipped,
                   spulled, lastClaim>>

\* 6 claimTicket(ticketID): NotFound, or the transition to Claimed with the
\* payout kept.
ClaimTicket(id) ==
    /\ IF ~HasTicket(ticketCollection, id)
       THEN /\ lastClaim' = [err |-> "NotFound", before |-> Nil, after |-> Nil,
                             payoutKept |-> TRUE]
            /\ UNCHANGED <<ticketCollection, payout>>
       ELSE LET t == TicketByID(ticketCollection, id)
                r == TransitionResult(t, PayoutOf(payout, id), Claimed, PayoutOf(payout, id))
            IN /\ ticketCollection' = WriteBack(ticketCollection, t, r)
               /\ payout' = IF r.err = Nil THEN SetPayout(payout, id, r.payout) ELSE payout
               /\ lastClaim' = [err |-> r.err, before |-> t.Status,
                                after |-> TicketByID(ticketCollection', id).Status,
                                payoutKept |-> PayoutOf(payout', id) = PayoutOf(payout, id)]
    /\ UNCHANGED <<patternVars, now, resultCollection, nextUUID, placeBetLog, recordLog, warehouseVars,
                   marker, spc, starget, sdraw, spending, sresult, swrites, soverlap, sskipped,
                   spulled>>

\* 4.5 steps 1-2: the tier the ticket's match maps to, as an index into the
\* draw result's prizes, or 0 for no tier. The tier tables are left to
\* configuration; this is the table of the scenarios of section 8: the
\* ticket's main group equal to the winning numbers is the first tier,
\* anything else is no tier.
MatchTier(t, d) ==
    IF Len(t.Numbers) >= 1 /\ t.Numbers[1] = d.WinningNumbers /\ Len(d.Prizes) >= 1
    THEN 1 ELSE 0

\* The outcome with the prize paid once, whatever the ticket's multiple.
SettleOutcome_IgnoringMultiple(t, d) ==
    IF MatchTier(t, d) = 0
    THEN [status |-> Lost, payout |-> 0]
    ELSE [status |-> Winning, payout |-> d.Prizes[MatchTier(t, d)].PrizeAmount]

\* 4.5 steps 3-4: the status and the payout of a ticket's outcome.
SettleOutcome(t, d) ==
    IF MatchTier(t, d) = 0
    THEN [status |-> Lost, payout |-> 0]
    ELSE [status |-> Winning, payout |-> d.Prizes[MatchTier(t, d)].PrizeAmount * t.Multiple]

\* A marker that is never seen held.
MarkerHeld_Never(m, pair) == FALSE

\* The "settlement in progress" marker of the pair is held.
MarkerHeld(m, pair) == pair \in DOMAIN m

\* 4.5 findTicketsByIssue, Pending only
PendingTickets(coll, pair) ==
    {t.ID : t \in {x \in coll : /\ x.LotteryType = pair[1]
                                /\ x.IssueNumber = pair[2]
                                /\ x.Status = Pending}}

DrawResultsOf(coll, pair) ==
    {d \in coll : d.LotteryType = pair[1] /\ d.IssueNumber = pair[2]}

\* settleIssue(product, issue), its start: NotFound without a draw result,
\* SettlementAlreadyRunning when the marker is held; otherwise the marker is
\* taken (test and set in one step) and the pending tickets are pulled.
\* Runs are numbered in the order they start.
SettleBegin(r, product, issue) ==
    LET pair == <<product, issue>> IN
    /\ spc[r] = "idle"
    /\ \A q \in Runs : q < r => spc[q] # "idle"
    /\ starget' = [starget EXCEPT ![r] = pair]
    /\ IF DrawResultsOf(resultCollection, pair) = {}
       THEN /\ sresult' = [sresult EXCEPT ![r] = "NotFound"]
            /\ spc' = [spc EXCEPT ![r] = "done"]
            /\ UNCHANGED <<marker, sdraw, spending, soverlap, spulled>>
       ELSE IF MarkerHeld(marker, pair)
       THEN /\ sresult' = [sresult EXCEPT ![r] = "SettlementAlreadyRunning"]
            /\ spc' = [spc EXCEPT ![r] = "done"]
            /\ soverlap' = [soverlap EXCEPT ![r] =
                              {q \in Runs : spc[q] = "settling" /\ starget[q] = pair}]
            /\ UNCHANGED <<marker, sdraw, spending, spulled>>
       ELSE /\ marker' = [k \in DOMAIN marker \cup {pair} |-> IF k = pair THEN r ELSE marker[k]]
            /\ \E d \in DrawResultsOf(resultCollection, pair) :
                 sdraw' = [sdraw EXCEPT ![r] = d]
            /\ spending' = [spending EXCEPT ![r] = PendingTickets(ticketCollection, pair)]
            /\ spulled' = [spulled EXCEPT ![r] = PendingTickets(ticketCollection, pair)]
            /\ soverlap' = [soverlap EXCEPT ![r] =
                              {q \in Runs : spc[q] = "settling" /\ starget[q] = pair}]
            /\ spc' = [spc EXCEPT ![r] = "settling"]
            /\ UNCHANGED sresult
    /\ UNCHANGED <<patternVars, now, serviceVars, warehouseVars, payout, swrites, sskipped, lastClaim>>

\* settleIssue, one ticket: its outcome, applied through transition; a
\* ticket that is no longer Pending is left as it is.
SettleTicket(r) ==
    /\ spc[r] = "settling"
    /\ \E id \in spending[r] :
        LET t == TicketByID(ticketCollection, id)
            o == SettleOutcome(t, sdraw[r])
            res == TransitionResult(t, PayoutOf(payout, id), o.status, o.payout)
        IN /\ ticketCollection' = WriteBack(ticketCollection, t, res)
           /\ payout' = IF res.err = Nil THEN SetPayout(payout, id, res.payout) ELSE payout
           /\ swrites' = [swrites EXCEPT ![r] = IF res.err = Nil THEN @ + 1 ELSE @]
           /\ sskipped' = IF res.err = Nil THEN sskipped ELSE sskipped \cup {r}
           /\ spending' = [spending EXCEPT ![r] = @ \ {id}]
    /\ UNCHANGED <<patternVars, now, resultCollection, nextUUID, placeBetLog, recordLog, warehouseVars,
                   marker, spc, starget, sdraw, sresult, soverlap, spulled, lastClaim>>

\* settleIssue, its end: the summary is returned and the marker given up.
SettleFinish(r) ==
    /\ spc[r] = "settling"
    /\ spending[r] = {}
    /\ sresult' = [sresult EXCEPT ![r] = "SettlementSummary"]
    /\ marker' = [k \in DOMAIN marker \ {starget[r]} |-> marker[k]]
    /\ spc' = [spc EXCEPT ![r] = "done"]
    /\ UNCHANGED <<patternVars, now, serviceVars, warehouseVars, payout, starget, sdraw, spending, swrites,
                   soverlap, sskipped, spulled, lastClaim>>

\* ------------------------------------------------------------- PaymentTracker
\* The names the strategies give (GetName) and the (amountPaid, discount)
\* pairs the callers pass (float64 in the code; whole amounts here, for which
\* float64 addition is exact).
Methods == {"Coupon", "Points"}
PaymentArgs == {<<20, 20>>, <<100, 0>>}

\* The rest of the model outside the tracker.
nonTrackerVars == <<now, warehouseVars, serviceVars, ledgerVars, callerVars, paymentVars,
                    followVars>>

\* A write lock that never waits.
CanLock_Unguarded(m) == TRUE

\* sync.RWMutex.Lock returns when no goroutine holds the lock in either mode.
CanLock(m) == m.w = 0 /\ m.r = {}

\* sync.RWMutex.RLock returns when no goroutine holds the write lock.
CanRLock(m) == m.w = 0

\* RecordPayment, line 30: pt.mu.Lock()
RecordLock(g, method, args) ==
    /\ tpc[g] = "idle"
    /\ CanLock(mu)
    /\ mu' = [mu EXCEPT !.w = g]
    /\ targ' = [targ EXCEPT ![g] = [method |-> method, amountPaid |-> args[1],
                                     discount |-> args[2]]]
    /\ tpc' = [tpc EXCEPT ![g] = "check"]
    /\ UNCHANGED <<records, precords, treg, titer, tcur, tsum, nonTrackerVars>>

\* RecordPayment, lines 34-38: create the record when the method has none
RecordCreate(g) ==
    /\ tpc[g] = "check"
    /\ LET m == targ[g].method
       IN IF m \in DOMAIN records
          THEN UNCHANGED <<records, precords>>
          ELSE /\ precords' = Append(precords,
                                [Method |-> m, AmountPaid |-> 0, TotalDiscount |-> 0])
               /\ records' = [k \in DOMAIN records \cup {m} |->
                                IF k = m THEN Len(precords) + 1 ELSE records[k]]
    /\ tpc' = [tpc EXCEPT ![g] = "loadAmount"]
    /\ UNCHANGED <<mu, targ, treg, titer, tcur, tsum, nonTrackerVars>>

\* RecordPayment, lines 41-42: record := pt.records[method]; the read of
\* record.AmountPaid += amountPaid
RecordLoadAmount(g) ==
    /\ tpc[g] = "loadAmount"
    /\ treg' = [treg EXCEPT ![g] = precords[records[targ[g].method]].AmountPaid]
    /\ tpc' = [tpc EXCEPT ![g] = "storeAmount"]
    /\ UNCHANGED <<records, precords, mu, targ, titer, tcur, tsum, nonTrackerVars>>

\* RecordPayment, line 42: the write of record.AmountPaid += amountPaid
RecordStoreAmount(g) ==
    /\ tpc[g] = "storeAmount"
    /\ precords' = [precords EXCEPT ![records[targ[g].method]].AmountPaid =
                        treg[g] + targ[g].amountPaid]
    /\ tpc' = [tpc EXCEPT ![g] = "loadDiscount"]
    /\ UNCHANGED <<records, mu, targ, treg, titer, tcur, tsum, nonTrackerVars>>

\* RecordPayment, line 43: the read of record.TotalDiscount += discount
RecordLoadDiscount(g) ==
    /\ tpc[g] = "loadDiscount"
    /\ treg' = [treg EXCEPT ![g] = precords[records[targ[g].method]].TotalDiscount]
    /\ tpc' = [tpc EXCEPT ![g] = "storeDiscount"]
    /\ UNCHANGED <<records, precords, mu, targ, titer, tcur, tsum, nonTrackerVars>>

\* RecordPayment, line 43: the write of record.TotalDiscount += discount
RecordStoreDiscount(g) ==
    /\ tpc[g] = "storeDiscount"
    /\ precords' = [precords EXCEPT ![records[targ[g].method]].TotalDiscount =
                        treg[g] + targ[g].discount]
    /\ tpc' = [tpc EXCEPT ![g] = "unlock"]
    /\ UNCHANGED <<records, mu, targ, treg, titer, tcur, tsum, nonTrackerVars>>

\* RecordPayment, line 31: the deferred pt.mu.Unlock()
RecordUnlock(g) ==
    /\ tpc[g] = "unlock"
    /\ mu' = [mu EXCEPT !.w = 0]
    /\ treg' = [treg EXCEPT ![g] = 0]
    /\ tpc' = [tpc EXCEPT ![g] = "done"]
    /\ UNCHANGED <<records, precords, targ, titer, tcur, tsum, nonTrackerVars>>

\* GetPaymentSummary, lines 48-52: pt.mu.RLock(); the range starts
SummaryRLock(g) ==
    /\ tpc[g] = "idle"
    /\ CanRLock(mu)
    /\ mu' = [mu EXCEPT !.r = @ \cup {g}]
    /\ titer' = [titer EXCEPT ![g] = DOMAIN records]
    /\ tpc' = [tpc EXCEPT ![g] = "range"]
    /\ UNCHANGED <<records, precords, targ, treg, tcur, tsum, nonTrackerVars>>

\* GetPaymentSummary, line 53: *record is copied field by field; Method and
\* AmountPaid first. The range visits the map in any order.
SummaryCopyAmount(g, method) ==
    /\ tpc[g] = "range"
    /\ method \in titer[g]
    /\ tcur' = [tcur EXCEPT ![g] = {[Method |-> precords[records[method]].Method,
                                     AmountPaid |-> precords[records[method]].AmountPaid]}]
    /\ titer' = [titer EXCEPT ![g] = @ \ {method}]
    /\ tpc' = [tpc EXCEPT ![g] = "copyDiscount"]
    /\ UNCHANGED <<records, precords, mu, targ, treg, tsum, nonTrackerVars>>

\* GetPaymentSummary, line 53: TotalDiscount is copied and the copy appended
SummaryCopyDiscount(g) ==
    /\ tpc[g] = "copyDiscount"
    /\ tsum' = [tsum EXCEPT ![g] = @ \cup
                  {[Method |-> c.Method, AmountPaid |-> c.AmountPaid,
                    TotalDiscount |-> precords[records[c.Method]].TotalDiscount] :
                        c \in tcur[g]}]
    /\ tcur' = [tcur EXCEPT ![g] = {}]
    /\ tpc' = [tpc EXCEPT ![g] = "range"]
    /\ UNCHANGED <<records, precords, mu, targ, treg, titer, nonTrackerVars>>

\* GetPaymentSummary, lines 49 and 55: the range is over, the deferred
\* pt.mu.RUnlock() runs and summaryRecords is returned
SummaryRUnlock(g) ==
    /\ tpc[g] = "range"
    /\ titer[g] = {}
    /\ mu' = [mu EXCEPT !.r = @ \ {g}]
    /\ tpc' = [tpc EXCEPT ![g] = "done"]
    /\ UNCHANGED <<records, precords, targ, treg, titer, tcur, tsum, nonTrackerVars>>

\* ------------------------------------------------------------- PaymentContext
\* Amounts are float64 in the code and whole numbers here. The amounts the
\* callers pass are multiples of 10000, so that a tenth taken MaxStrategies + 1
\* times in a row is still a whole number and \div is exact.
PayAmounts == {0, 10000, 20000}

\* &CreditCardStrategy{}, &CouponStrategy{couponDiscount: d}, &PointsStrategy{points: p}
CreditCardStrategy == [kind |-> "Credit Card", couponDiscount |-> 0, points |-> 0]
CouponStrategy(d) == [kind |-> "Coupon", couponDiscount |-> d, points |-> 0]
PointsStrategy(p) == [kind |-> "Points", couponDiscount |-> 0, points |-> p]

\* The strategies the callers add: couponDiscount is any float64 the caller
\* writes, a negative one included.
StrategyChoices ==
    {CreditCardStrategy, CouponStrategy(10000), CouponStrategy(-10000), PointsStrategy(1500)}

\* GetName
GetName(st) == st.kind

\* CreditCardStrategy.Pay: the amount comes back as the remaining amount.
CreditCardPay(st, amount) ==
    [remaining |-> amount, discount |-> 0, strategy |-> st]

\* A coupon whose discount is subtracted with no floor at 0.
CouponPay_NoFloor(st, amount) ==
    [remaining |-> amount - st.couponDiscount, discount |-> st.couponDiscount,
     strategy |-> st]

\* CouponStrategy.Pay
CouponPay(st, amount) ==
    LET discountedAmount == amount - st.couponDiscount
    IN [remaining |-> IF discountedAmount < 0 THEN 0 ELSE discountedAmount,
        discount |-> st.couponDiscount,
        strategy |-> st]

\* PointsStrategy.Pay: discount := (amount / 100) * 10
PointsPay(st, amount) ==
    LET discount == (amount * 10) \div 100
    IN IF st.points >= discount
       THEN [remaining |-> amount - discount, discount |-> discount,
             strategy |-> [st EXCEPT !.points = @ - discount]]
       ELSE [remaining |-> amount, discount |-> 0, strategy |-> st]

\* strategy.Pay(remainingAmount), by the dynamic type of the strategy
StrategyPay(st, amount) ==
    CASE st.kind = "Credit Card" -> CreditCardPay(st, amount)
      [] st.kind = "Coupon" -> CouponPay(st, amount)
      [] st.kind = "Points" -> PointsPay(st, amount)

\* PaymentTracker.RecordPayment as one call of the only goroutine: the map
\* and the records after it.
RecordPayment(recs, heapOfRecords, method, amountPaid, discount) ==
    LET created == IF method \in DOMAIN recs
                   THEN heapOfRecords
                   ELSE Append(heapOfRecords,
                               [Method |-> method, AmountPaid |-> 0, TotalDiscount |-> 0])
        index == [k \in DOMAIN recs \cup {method} |->
                    IF k \in DOMAIN recs THEN recs[k] ELSE Len(heapOfRecords) + 1]
    IN [records |-> index,
        precords |-> [created EXCEPT ![index[method]] =
                        [@ EXCEPT !.AmountPaid = @ + amountPaid,
                                  !.TotalDiscount = @ + discount]]]

\* PaymentContext.AddStrategy
AddStrategy(st) ==
    /\ ppc # "loop"
    /\ Len(strategies) < MaxStrategies
    /\ strategies' = Append(strategies, st)
    /\ UNCHANGED <<ppc, pcalls, pamount, premaining, pindex, plog, pwritten,
                   now, warehouseVars, serviceVars, ledgerVars, callerVars, trackerVars,
                   followVars>>

\* Pay, lines 135-141: remainingAmount := amount; the range starts
PayBegin(amount) ==
    /\ ppc # "loop"
    /\ pcalls < MaxPays
    /\ pcalls' = pcalls + 1
    /\ pamount' = amount
    /\ premaining' = amount
    /\ pindex' = 1
    /\ plog' = <<>>
    /\ pwritten' = <<>>
    /\ ppc' = "loop"
    /\ UNCHANGED <<strategies,
                   now, warehouseVars, serviceVars, ledgerVars, callerVars, trackerVars,
                   followVars>>

\* Pay, lines 141-155: one round of the range, the break included
PayStep ==
    /\ ppc = "loop"
    /\ pindex <= Len(strategies)
    /\ LET st == strategies[pindex]
           r == StrategyPay(st, premaining)
           t == RecordPayment(records, precords, GetName(st),
                              pamount - r.remaining, r.discount)
       IN /\ premaining' = r.remaining
          /\ strategies' = [strategies EXCEPT ![pindex] = r.strategy]
          /\ records' = t.records
          /\ precords' = t.precords
          /\ plog' = Append(plog, [index |-> pindex, name |-> GetName(st),
                                   before |-> premaining, after |-> r.remaining])
          /\ pwritten' = Append(pwritten, GetName(st))
          /\ pindex' = IF r.remaining <= 0 THEN Len(strategies) + 1 ELSE pindex + 1
    /\ UNCHANGED <<ppc, pcalls, pamount, mu, tpc, targ, treg, titer, tcur, tsum,
                   now, warehouseVars, serviceVars, ledgerVars, callerVars, followVars>>

\* Pay, line 157: return remainingAmount, paymentDetails
PayReturn ==
    /\ ppc = "loop"
    /\ pindex > Len(strategies)
    /\ ppc' = "returned"
    /\ UNCHANGED <<strategies, pcalls, pamount, premaining, pindex, plog, pwritten,
                   now, warehouseVars, serviceVars, ledgerVars, callerVars, trackerVars,
                   followVars>>

\* ------------------------------------------------------------- OrthogonalList
\* The user IDs the callers pass.
FollowUsers == {1, 2, 3}

\* AddFollow, lines 84-87: the last node of a row list, always its first node here.
RowTail_NoWalk(ns, current) == current

\* AddFollow, lines 84-87: for current.NextRow != nil { current = current.NextRow }
RECURSIVE RowTail(_, _)
RowTail(ns, current) ==
    IF ns[current].NextRow = 0 THEN current ELSE RowTail(ns, ns[current].NextRow)

\* AddFollow, lines 95-98: for current.NextColumn != nil { current = current.NextColumn }
RECURSIVE ColumnTail(_, _)
ColumnTail(ns, current) ==
    IF ns[current].NextColumn = 0 THEN current ELSE ColumnTail(ns, ns[current].NextColumn)

\* GetFollowings, lines 107-110: the FollowingIDs along NextRow
RECURSIVE WalkRow(_, _)
WalkRow(ns, current) ==
    IF current = 0 THEN <<>>
    ELSE <<ns[current].FollowingID>> \o WalkRow(ns, ns[current].NextRow)

\* GetFollowers, lines 118-121: the UserIDs along NextColumn
RECURSIVE WalkColumn(_, _)
WalkColumn(ns, current) ==
    IF current = 0 THEN <<>>
    ELSE <<ns[current].UserID>> \o WalkColumn(ns, ns[current].NextColumn)

GetFollowings(userID) == WalkRow(nodes, Rows[userID])

GetFollowers(userID) == WalkColumn(nodes, Cols[userID])

AddFollow(userID, followingID) ==
    /\ Len(follows) < MaxFollows
    /\ LET newNode == Len(nodes) + 1
           created == Append(nodes, [UserID |-> userID, FollowingID |-> followingID,
                                     NextRow |-> 0, NextColumn |-> 0])
           rowLinked == IF Rows[userID] = 0
                        THEN created
                        ELSE [created EXCEPT ![RowTail(created, Rows[userID])].NextRow =
                                newNode]
           columnLinked == IF Cols[followingID] = 0
                           THEN rowLinked
                           ELSE [rowLinked EXCEPT
                                   ![ColumnTail(rowLinked, Cols[followingID])].NextColumn =
                                       newNode]
       IN /\ nodes' = columnLinked
          /\ Rows' = IF Rows[userID] = 0 THEN [Rows EXCEPT ![userID] = newNode] ELSE Rows
          /\ Cols' = IF Cols[followingID] = 0 THEN [Cols EXCEPT ![followingID] = newNode]
                     ELSE Cols
    /\ follows' = Append(follows, <<userID, followingID>>)
    /\ UNCHANGED <<now, warehouseVars, serviceVars, ledgerVars, callerVars, trackerVars,
                   paymentVars>>

\* ------------------------------------------------------------- init
Init ==
    /\ now = 0
    /\ pc = [p \in Procs |-> "create"]
    /\ ticket = [p \in Procs |-> Nil]
    /\ saveErr = [p \in Procs |-> Nil]
    /\ cacheErr = [p \in Procs |-> Nil]
    /\ ticketColl = {}
    /\ redis = <<>>
    /\ ticketCollection = {}
    /\ resultCollection = {}
    /\ nextUUID = 0
    /\ placeBetLog = {}
    /\ recordLog = {}
    /\ payout = <<>>
    /\ marker = <<>>
    /\ spc = [r \in Runs |-> "idle"]
    /\ starget = [r \in Runs |-> Nil]
    /\ sdraw = [r \in Runs |-> Nil]
    /\ spending = [r \in Runs |-> {}]
    /\ sresult = [r \in Runs |-> Nil]
    /\ swrites = [r \in Runs |-> 0]
    /\ soverlap = [r \in Runs |-> {}]
    /\ sskipped = {}
    /\ spulled = [r \in Runs |-> {}]
    /\ lastClaim = [err |-> "none", before |-> Nil, after |-> Nil, payoutKept |-> TRUE]
    /\ heap = <<>>
    /\ cpc = [c \in Callers |-> "start"]
    /\ cnumbers = [c \in Callers |-> 0]
    /\ cticket = [c \in Callers |-> Nil]
    /\ corig = [c \in Callers |-> <<>>]
    /\ cwrites = [c \in Callers |-> 0]
    /\ cstore = {}
    /\ records = <<>>
    /\ precords = <<>>
    /\ mu = [w |-> 0, r |-> {}]
    /\ tpc = [g \in Writers \cup Readers |-> "idle"]
    /\ targ = [g \in Writers |-> [method |-> "", amountPaid |-> 0, discount |-> 0]]
    /\ treg = [g \in Writers |-> 0]
    /\ titer = [g \in Readers |-> {}]
    /\ tcur = [g \in Readers |-> {}]
    /\ tsum = [g \in Readers |-> {}]
    /\ strategies = <<>>
    /\ ppc = "idle"
    /\ pcalls = 0
    /\ pamount = 0
    /\ premaining = 0
    /\ pindex = 1
    /\ plog = <<>>
    /\ pwritten = <<>>
    /\ nodes = <<>>
    /\ Rows = [u \in FollowUsers |-> 0]
    /\ Cols = [u \in FollowUsers |-> 0]
    /\ follows = <<>>

NextWarehouse ==
    \/ Tick
    \/ \E p \in Procs : MainCreate(p)
    \/ \E p \in Procs : MainSave(p)
    \/ \E p \in Procs : MainCache(p)
    \/ RedisExpire

SpecWarehouse == Init /\ [][NextWarehouse]_vars

NextService ==
    \/ Tick
    \/ \E userID \in UserIDs, lotteryType \in {DoubleBall, ArrangeV3},
          numbers \in BetNumbers, betAmount \in BetAmounts :
            PlaceBet(userID, lotteryType, numbers, betAmount)
    \/ \E lotteryType \in {DoubleBall, ArrangeV3}, winningNumbers \in WinningChoices,
          prizes \in PrizeChoices :
            RecordDrawResult(lotteryType, winningNumbers, prizes)

SpecService == Init /\ [][NextService]_vars

\* The identities and issues the callers of the ledger pass.
TicketIDs == {NewUUID(n) : n \in 0..(MaxUUID - 1)}
Issues == {IssueNumberAt(t) : t \in 0..MaxClock}

NextLedger ==
    \/ \E numbers \in NumberChoices : PlaceBet("u-1", ArrangeV3, numbers, 100)
    \/ \E winningNumbers \in {<<4, 2, 9>>}, prizes \in PrizeChoices :
            RecordDrawResult(ArrangeV3, winningNumbers, prizes)
    \/ \E id \in TicketIDs, newStatus \in Statuses, payoutAmount \in PayoutChoices :
            Transition(id, newStatus, payoutAmount)
    \/ \E id \in TicketIDs : ClaimTicket(id)
    \/ \E r \in Runs, issue \in Issues : SettleBegin(r, ArrangeV3, issue)
    \/ \E r \in Runs : SettleTicket(r)
    \/ \E r \in Runs : SettleFinish(r)

SpecLedger == Init /\ [][NextLedger]_vars

\* The operations of the external interface (spec.md 6) alone: the ledger's
\* transition is reached only through settleIssue and claimTicket.
NextSettle ==
    \/ \E numbers \in NumberChoices : PlaceBet("u-1", ArrangeV3, numbers, 100)
    \/ \E winningNumbers \in {<<4, 2, 9>>}, prizes \in PrizeChoices :
            RecordDrawResult(ArrangeV3, winningNumbers, prizes)
    \/ \E id \in TicketIDs : ClaimTicket(id)
    \/ \E r \in Runs, issue \in Issues : SettleBegin(r, ArrangeV3, issue)
    \/ \E r \in Runs : SettleTicket(r)
    \/ \E r \in Runs : SettleFinish(r)

SpecSettle == Init /\ [][NextSettle]_vars

NextCaller ==
    \/ \E c \in Callers, userID \in Users, numbers \in NumberChoices :
            CallerCreate(c, userID, numbers)
    \/ \E c \in Callers, i \in 1..2, j \in 1..2 : CallerWrite(c, i, j)
    \/ \E c \in Callers : CallerSave(c)

SpecCaller == Init /\ [][NextCaller]_vars

NextTracker ==
    \/ \E g \in Writers, method \in Methods, args \in PaymentArgs :
            RecordLock(g, method, args)
    \/ \E g \in Writers : RecordCreate(g)
    \/ \E g \in Writers : RecordLoadAmount(g)
    \/ \E g \in Writers : RecordStoreAmount(g)
    \/ \E g \in Writers : RecordLoadDiscount(g)
    \/ \E g \in Writers : RecordStoreDiscount(g)
    \/ \E g \in Writers : RecordUnlock(g)
    \/ \E g \in Readers : SummaryRLock(g)
    \/ \E g \in Readers, method \in Methods : SummaryCopyAmount(g, method)
    \/ \E g \in Readers : SummaryCopyDiscount(g)
    \/ \E g \in Readers : SummaryRUnlock(g)

SpecTracker == Init /\ [][NextTracker]_vars

NextPayment ==
    \/ \E st \in StrategyChoices : AddStrategy(st)
    \/ \E amount \in PayAmounts : PayBegin(amount)
    \/ PayStep
    \/ PayReturn

SpecPayment == Init /\ [][NextPayment]_vars

NextFollow ==
    \E userID \in FollowUsers, followingID \in FollowUsers : AddFollow(userID, followingID)

SpecFollow == Init /\ [][NextFollow]_vars

\* ------------------------------------------------------------- properties

\* C1: a ticket enters the store Pending, and from one state to the next a
\* stored ticket's status stays as it is or moves along Pending -> Won,
\* Pending -> Lost or Won -> Claimed.
C1_StatusLifecycle ==
    [][/\ \A t2 \in ticketCollection' :
            ~HasTicket(ticketCollection, t2.ID) => t2.Status = Pending
       /\ \A t \in ticketCollection : \A t2 \in ticketCollection' :
            t2.ID = t.ID =>
                \/ t2.Status = t.Status
                \/ <<t.Status, t2.Status>> \in
                     {<<Pending, Winning>>, <<Pending, Lost>>, <<Winning, Claimed>>}]_vars

\* C1's case: one ticket has gone all the way to Claimed, another to Lost.
C1_Witness ==
    \E t1, t2 \in ticketCollection : t1.Status = Claimed /\ t2.Status = Lost

\* C2: for every (product, issue) pair at most one DrawResult is stored: a
\* second recording for the pair is refused and leaves the first in place.
C2_OneResultPerIssue ==
    \A r1, r2 \in resultCollection :
        (r1.LotteryType = r2.LotteryType /\ r1.IssueNumber = r2.IssueNumber) => r1 = r2

\* C4: no two created tickets carry the same ID, also when the same user
\* creates two at one clock reading.
C4_TicketIDsUnique ==
    \A p, q \in Procs :
        (p # q /\ pc[p] # "create" /\ pc[q] # "create") => ticket[p].ID # ticket[q].ID

\* C5: the cache is written only after the authoritative write succeeded:
\* whatever the cache holds is a ticket the authoritative store holds.
C5_CachedOnlyIfStored ==
    \A k \in DOMAIN redis : \E d \in ticketColl : redis[k] = Marshal(d)

\* C6: right after a successful authoritative write of a ticket, the cache
\* holds under the ticket's key either nothing (a miss) or the value just
\* written, never a value cached before the write.
C6_NoStaleCacheAfterWrite ==
    [][\A p \in Procs :
         (pc[p] = "save" /\ pc'[p] = "cache" /\ saveErr'[p] = Nil)
           => \/ CacheKey(ticket[p]) \notin DOMAIN redis'
              \/ redis'[CacheKey(ticket[p])] = Marshal(ticket[p])]_vars

\* C7: PlaceBet returns a ticket only if the repository stored it: a failed
\* SaveTicket gives the error and no ticket, and nothing is stored; a
\* successful one gives the ticket that was stored.
C7_PlaceBetReturnsWhatWasStored ==
    \A c \in placeBetLog :
        /\ c.ret.err # Nil => (c.ret.value = {} /\ c.built \notin ticketCollection)
        /\ c.ret.err = Nil => (c.ret.value = {c.built} /\ c.built \in ticketCollection)
        /\ c.ret.value \subseteq ticketCollection

\* C7's case: one PlaceBet call has failed and another has succeeded.
C7_Witness ==
    \E c1, c2 \in placeBetLog : c1.ret.err # Nil /\ c2.ret.err = Nil

\* C8: every persisted ticket has a positive stake and a multiple of at
\* least 1.
C8_StakeAndMultiplePositive ==
    \A t \in ticketCollection : t.BetAmount > 0 /\ t.Multiple >= 1

\* C3: two runs of settleIssue on one (product, issue) pair are never both
\* in progress; a run that starts while another is in progress on its pair
\* returns SettlementAlreadyRunning, and such a run has written nothing; the
\* run it found in progress ends with the summary.
C3_OneSettlementRun ==
    /\ \A r, q \in Runs :
        (r # q /\ spc[r] = "settling" /\ spc[q] = "settling") => starget[r] # starget[q]
    /\ \A r \in Runs : sresult[r] = "SettlementAlreadyRunning" => swrites[r] = 0
    /\ \A r \in Runs : \A q \in soverlap[r] :
        /\ sresult[r] = "SettlementAlreadyRunning"
        /\ spc[q] = "done" => sresult[q] = "SettlementSummary"

\* C3's case: a run started while another was settling the same pair, and
\* that other run has finished after writing at least one ticket.
C3_Witness ==
    \E r \in Runs : \E q \in soverlap[r] :
        spc[q] = "done" /\ swrites[q] > 0 /\ sresult[r] = "SettlementAlreadyRunning"

\* transition applied twice with the same arguments gives what it gives
\* applied once, for every ticket of the store.
TransitionIdempotent(coll, pay) ==
    \A t \in coll, newStatus \in Statuses, amount \in PayoutChoices \cup {0} :
        LET r1 == TransitionResult(t, PayoutOf(pay, t.ID), newStatus, amount)
            r2 == TransitionResult(r1.ticket, r1.payout, newStatus, amount)
        IN r2.ticket = r1.ticket /\ r2.payout = r1.payout

\* C9: repeating a transition changes nothing more (for the tickets and
\* payouts of every state a step brings about), and a step of a settlement
\* run leaves every ticket that is already Won, Lost or Claimed with its
\* status and its payout.
C9_SettlementIdempotent ==
    [][/\ <<ticketCollection, payout>>' # <<ticketCollection, payout>> =>
            TransitionIdempotent(ticketCollection', payout')
       /\ \A r \in Runs :
            (spc[r] = "settling" /\ spending'[r] # spending[r]) =>
                \A t \in ticketCollection :
                    t.Status # Pending =>
                        /\ t \in ticketCollection'
                        /\ PayoutOf(payout', t.ID) = PayoutOf(payout, t.ID)]_vars

\* C9's case: a run that met a ticket settled in the meantime has finished.
C9_Witness ==
    \E r \in sskipped : sresult[r] = "SettlementSummary"

\* C10: claimTicket succeeds exactly on a Won ticket, which it leaves
\* Claimed; on a Pending, Lost or Claimed ticket it fails with
\* InvalidTransition and leaves status and payout as they were.
C10_ClaimOnlyFromWon ==
    lastClaim.err \notin {"none", "NotFound"} =>
        /\ lastClaim.before = Winning => (lastClaim.err = Nil /\ lastClaim.after = Claimed)
        /\ lastClaim.before # Winning =>
            /\ lastClaim.err = "InvalidTransition"
            /\ lastClaim.after = lastClaim.before
            /\ lastClaim.payoutKept

\* C10's case: a ticket claimed once is claimed again, and the call fails.
C10_Witness ==
    /\ lastClaim.err = "InvalidTransition"
    /\ lastClaim.before = Claimed

\* The outcome the claim gives a ticket t settled against the draw result d,
\* with the payout pay recorded for it: Won with the tier's amount times the
\* multiple when the match maps to a tier, Lost with 0 otherwise.
SettledAsClaimed(t, d, pay, wonStatuses) ==
    IF MatchTier(t, d) # 0
    THEN /\ t.Status \in wonStatuses
         /\ pay = d.Prizes[MatchTier(t, d)].PrizeAmount * t.Multiple
    ELSE /\ t.Status = Lost
         /\ pay = 0

C12_NumbersImmutable ==
    \A c \in Callers :
        cpc[c] # "start" => Deref(heap, cticket[c].Numbers) = corig[c]

\* C13: when SaveTicket succeeded and CacheTicket returned an error, the run
\* of main still ends normally and its ticket is in the authoritative store.
C13_CacheFailureDoesNotFailSave ==
    \A p \in Procs :
        (saveErr[p] = Nil /\ cacheErr[p] # Nil) =>
            /\ pc[p] = "done"
            /\ ticket[p] \in ticketColl

\* C13's case: a run whose authoritative write succeeded and whose cache
\* write failed has ended.
C13_Witness ==
    \E p \in Procs :
        /\ pc[p] = "done"
        /\ saveErr[p] = Nil
        /\ cacheErr[p] = "error"
        /\ ticket[p] \in ticketColl

\* The sum of the amounts, and of the discounts, of the calls of a set of
\* goroutines.
RECURSIVE SumAmountPaid(_)
SumAmountPaid(S) ==
    IF S = {} THEN 0
    ELSE LET g == CHOOSE x \in S : TRUE
         IN targ[g].amountPaid + SumAmountPaid(S \ {g})

RECURSIVE SumDiscount(_)
SumDiscount(S) ==
    IF S = {} THEN 0
    ELSE LET g == CHOOSE x \in S : TRUE
         IN targ[g].discount + SumDiscount(S \ {g})

\* The RecordPayment calls made so far for a method.
CallsFor(method) == {g \in Writers : tpc[g] # "idle" /\ targ[g].method = method}

\* C14: once every RecordPayment call has returned, each method that was
\* called has exactly one record, holding the sums of the amounts and of the
\* discounts of its calls, and no other method has a record; and every record
\* a summary holds shows, in both fields, the same calls applied.
C14_RecordPaymentAtomic ==
    /\ (\A g \in Writers : tpc[g] = "done") =>
          /\ DOMAIN records = {m \in Methods : CallsFor(m) # {}}
          /\ Len(precords) = Cardinality(DOMAIN records)
          /\ \A m \in DOMAIN records :
                /\ precords[records[m]].Method = m
                /\ precords[records[m]].AmountPaid = SumAmountPaid(CallsFor(m))
                /\ precords[records[m]].TotalDiscount = SumDiscount(CallsFor(m))
    /\ \A g \in Readers :
          /\ \A x, y \in tsum[g] : x.Method = y.Method => x = y
          /\ \A x \in tsum[g] :
                \E S \in SUBSET CallsFor(x.Method) :
                    /\ S # {}
                    /\ x.AmountPaid = SumAmountPaid(S)
                    /\ x.TotalDiscount = SumDiscount(S)

\* C14's case: two calls for one method have both returned, and a summary
\* taken between them has returned with the first call alone in its record.
C14_Witness ==
    \E m \in Methods, g \in Readers :
        /\ \A w \in Writers : tpc[w] = "done"
        /\ Cardinality(CallsFor(m)) >= 2
        /\ precords[records[m]].TotalDiscount > 0
        /\ tpc[g] = "done"
        /\ \E x \in tsum[g] :
              /\ x.Method = m
              /\ x.AmountPaid < precords[records[m]].AmountPaid

\* What the claim says of a call of Pay, in any state of the call: the k-th
\* strategy invoked is the k-th added and starts from what the one before
\* left; no strategy leaves more than it was given; none is invoked, and no
\* RecordPayment is made, after one has left 0, and the range ends early
\* only then; the call returns an amount between 0 and the original one.
PayAsClaimed ==
    /\ \A k \in 1..Len(plog) :
          /\ plog[k].index = k
          /\ plog[k].name = GetName(strategies[k])
          /\ plog[k].before = (IF k = 1 THEN pamount ELSE plog[k - 1].after)
          /\ plog[k].after <= plog[k].before
          /\ k < Len(plog) => plog[k].after > 0
    /\ pwritten = [k \in 1..Len(plog) |-> plog[k].name]
    /\ (ppc = "loop" /\ pindex > Len(strategies) /\ Len(plog) < Len(strategies)) =>
          /\ Len(plog) > 0
          /\ plog[Len(plog)].after <= 0
    /\ ppc = "returned" =>
          /\ premaining >= 0
          /\ premaining <= pamount

\* C15 as stated: every call of Pay with a non-negative amount goes as the
\* claim says, whatever strategies were added.
C15_PayOrderAndBounds == PayAsClaimed

\* C15 as amended: every call of Pay with a non-negative amount goes as the
\* claim says when no coupon strategy has a negative discount.
C15_PayWithNonNegativeCoupons ==
    (\A k \in 1..Len(strategies) : strategies[k].couponDiscount >= 0) => PayAsClaimed

\* C15's case: a call of Pay has returned 0 after two strategies, in the
\* order they were added, with a third one never invoked.
C15_Witness ==
    /\ ppc = "returned"
    /\ \A k \in 1..Len(strategies) : strategies[k].couponDiscount >= 0
    /\ Len(strategies) = 3
    /\ Len(plog) = 2
    /\ plog[1].after < plog[1].before
    /\ pamount > 0
    /\ premaining = 0
    /\ GetName(strategies[3]) \notin DOMAIN records

\* The users a was made to follow, and the users made to follow b, in the
\* order of the AddFollow calls.
FollowedBy(a) ==
    LET made == SelectSeq(follows, LAMBDA c : c[1] = a)
    IN [k \in 1..Len(made) |-> made[k][2]]

FollowersOf(b) ==
    LET made == SelectSeq(follows, LAMBDA c : c[2] = b)
    IN [k \in 1..Len(made) |-> made[k][1]]

\* The number of times x occurs in a sequence.
Occurrences(seq, x) == Cardinality({k \in 1..Len(seq) : seq[k] = x})

\* C16: after any AddFollow calls, b occurs in GetFollowings(a) as many times
\* as a occurs in GetFollowers(b), once per AddFollow(a, b) call, and both
\* lists are in the order of the calls.
C16_RowsAndColumnsConsistent ==
    \A a \in FollowUsers :
        /\ GetFollowings(a) = FollowedBy(a)
        /\ GetFollowers(a) = FollowersOf(a)
        /\ \A b \in FollowUsers :
              /\ Occurrences(GetFollowings(a), b) = Occurrences(GetFollowers(b), a)
              /\ Occurrences(GetFollowings(a), b) = Occurrences(follows, <<a, b>>)

\* C16's case: a user has three followers, one of them twice, with another
\* call in between.
C16_Witness ==
    \E a, b \in FollowUsers :
        /\ Len(GetFollowers(b)) = 3
        /\ Occurrences(GetFollowers(b), a) = 2
        /\ GetFollowers(b)[2] # a
        /\ Len(GetFollowings(a)) = 2

====
